---- MODULE Spec2Model ----
(***************************************************************************)
(* A model of the example PostgreSQL extension of go-pgxs                  *)
(* (example/example.go): the two exported functions Hello and JoinStrings, *)
(* the host that calls them through the C calling convention, and the      *)
(* installation metadata the README documents (example.c, the SQL script). *)
(*                                                                         *)
(* The adapter library itself (package pgxs: Scan, ToDatum, LogError,      *)
(* NewNoticeLogger) is imported by example.go but is not among the         *)
(* sources; its operations are modelled from the written specification.    *)
(*                                                                         *)
(* SQL text values are sequences of characters, so that concatenation is   *)
(* sequence concatenation; log messages are plain strings.                 *)
(***************************************************************************)
EXTENDS Integers, Sequences, FiniteSets, TLC

(***************************************************************************)
(* Bounds of the model.                                                    *)
(***************************************************************************)
\* longest text[] argument
MaxArr == 3
\* most arguments a call-info holds
MaxArgs == 2
\* calls the host issues in one behaviour
MaxCalls == 3
\* backend processes of the host
NumBackends == 2

Backends == 1..NumBackends

Alphabet == {"a", "b", "c"}

\* the element strings an array argument is built from
Strings == {<<>>} \cup {<<c>> : c \in Alphabet} \cup {<<"a", "b">>}

SeqsUpTo(S, n) == UNION {[1..k -> S] : k \in 0..n}

TextArrays == SeqsUpTo(Strings, MaxArr)

(***************************************************************************)
(* Encoded values (Datum): a type-erased word.  typ and ok describe what   *)
(* the word holds: the zero word, or a pointer to a value of an SQL type   *)
(* whose variable-length encoding is well formed (ok) or not.              *)
(***************************************************************************)
ZeroDatum == [typ |-> "zero", ok |-> TRUE, val |-> <<>>]

TextDatum(s) == [typ |-> "text", ok |-> TRUE, val |-> s]

TextArrayDatum(arr) == [typ |-> "text[]", ok |-> TRUE, val |-> arr]

MalformedArrayDatum == [typ |-> "text[]", ok |-> FALSE, val |-> <<>>]

Int4Datum == [typ |-> "int4", ok |-> TRUE, val |-> <<>>]

\* no value returned yet
NoDatum == [typ |-> "unset", ok |-> FALSE, val |-> <<>>]

(***************************************************************************)
(* Call-info structures the host passes in.                                *)
(***************************************************************************)
ArgValues == {TextArrayDatum(a) : a \in TextArrays}
                \cup {MalformedArrayDatum, Int4Datum}

\* the values of the arguments of a call that has more than one
ExtraArgValues == {TextArrayDatum(<<>>), TextArrayDatum(<< <<"a">> >>),
                   MalformedArrayDatum, Int4Datum}

ArgLists == {<<>>} \cup {<<a>> : a \in ArgValues}
               \cup UNION {[1..k -> ExtraArgValues] : k \in 2..MaxArgs}

\* a trigger call carries its arguments in the trigger context, not here
CallInfos == {[trigger |-> FALSE, args |-> as] : as \in ArgLists}
                \cup {[trigger |-> TRUE, args |-> <<>>]}

\* the call-infos of the concurrent specification
ConcCallInfos == {[trigger |-> FALSE, args |-> as] : as \in
                    {<<TextArrayDatum(<< <<"a">> >>)>>,
                     <<TextArrayDatum(<< <<"a">>, <<"b">> >>)>>,
                     <<MalformedArrayDatum>>}}

NoCallInfo == [trigger |-> FALSE, args |-> <<>>]

(***************************************************************************)
(* Native values and destinations.                                         *)
(***************************************************************************)
NilValue == [kind |-> "nil", s |-> <<>>]

StringValue(s) == [kind |-> "string", s |-> s]

\* var strs []string: a nil slice, not yet written by a scan
NilSlice == [gotype |-> "[]string", set |-> FALSE, elems |-> <<>>]

NilErr == [kind |-> "nil", text |-> ""]

InvalidInput(t) == [kind |-> "InvalidInput", text |-> t]

(***************************************************************************)
(* The adapter library (package pgxs).                                     *)
(***************************************************************************)
\* the type mapping table: host SQL type -> native type
NativeTypeOf(typ) ==
    CASE typ = "text[]" -> "[]string"
      [] typ = "text"   -> "string"
      [] OTHER          -> "unsupported"

\* the error of FuncInfo.Scan(dests...), NilErr when there is none
ScanError(fi, dests) ==
    IF fi.trigger
    THEN InvalidInput("pgxs: scan of a trigger call")
    ELSE IF Len(fi.args) # Len(dests)
    THEN InvalidInput("pgxs: wrong number of arguments")
    ELSE IF \E i \in 1..Len(dests) :
                NativeTypeOf(fi.args[i].typ) # dests[i].gotype
    THEN InvalidInput("pgxs: unsupported argument type")
    ELSE IF \E i \in 1..Len(dests) : ~fi.args[i].ok
    THEN InvalidInput("pgxs: malformed argument")
    ELSE NilErr

\* FuncInfo.Scan: the error and the destinations as the call leaves them
Scan(fi, dests) ==
    LET e == ScanError(fi, dests) IN
    [err   |-> e,
     dests |-> IF e = NilErr
               THEN [i \in 1..Len(dests) |->
                        [gotype |-> dests[i].gotype, set |-> TRUE,
                         elems |-> fi.args[i].val]]
               ELSE dests]

\* pgxs.ToDatum
ToDatum(v) == IF v.kind = "nil" THEN ZeroDatum ELSE TextDatum(v.s)

\* pgxs.NewNoticeLogger(prefix, flags)
NewNoticeLogger(prefix, flags) ==
    [sev |-> "NOTICE", prefix |-> prefix, flags |-> flags]

\* the entry a logger's Println(msg) writes to the host's log
Println(logger, msg) ==
    [sev |-> logger.sev, prefix |-> logger.prefix, flags |-> logger.flags,
     msg |-> msg]

\* the entry pgxs.LogError(msg) writes to the host's log
LogError(msg) == [sev |-> "ERROR", prefix |-> "", flags |-> {}, msg |-> msg]

\* whether an entry of that severity signals the host's error reporting
RaisesHostError(entry) == entry.sev = "ERROR"

(***************************************************************************)
(* strings.Join as example.go uses it.                                     *)
(***************************************************************************)
RECURSIVE JoinFrom(_, _, _)
JoinFrom(elems, sep, i) ==
    IF i > Len(elems) THEN <<>>
    ELSE sep \o elems[i] \o JoinFrom(elems, sep, i + 1)

Join(elems, sep) ==
    CASE Len(elems) = 0 -> <<>>
      [] Len(elems) = 1 -> elems[1]
      [] OTHER          -> elems[1] \o JoinFrom(elems, sep, 2)

(***************************************************************************)
(* example.go                                                              *)
(***************************************************************************)
\* variant: Hello logging at error severity
HelloLoggerAtError == [sev |-> "ERROR", prefix |-> "",
                       flags |-> {"Ldate", "Ltime", "Lshortfile"}]
\* line 37: the logger Hello creates
HelloLogger == NewNoticeLogger("", {"Ldate", "Ltime", "Lshortfile"})

\* variant: Hello returning its greeting as text
HelloResultText == TextDatum(<<"h", "e", "l", "l", "o">>)
\* line 39: the word Hello returns
HelloResult == ZeroDatum

\* variant: JoinStrings scanning two destinations
JoinStringsDestsTwo(s) == <<s, s>>
\* line 50: the destinations JoinStrings hands to Scan
JoinStringsDests(s) == <<s>>

\* variant: the scan error ignored
ScanFailedNever(e) == FALSE
\* line 51: err != nil
ScanFailed(e) == e # NilErr

\* variant: a fixed message in place of the error's text
ErrorTextFixed(e) == "scan failed"
\* line 52: err.Error()
ErrorText(e) == e.text

\* variant: nil returned after a failed scan
FallbackValueNil == NilValue
\* line 53: the value returned after a failed scan
FallbackValue == StringValue(<<>>)

\* variant: a comma separator
JoinSepComma == <<",">>
\* line 56: the separator
JoinSep == <<>>

\* variant: strs kept in one place shared by every call
StrsSlotShared(b) == 1
\* line 48: strs is a local of the call, one per backend in progress
StrsSlot(b) == b

(***************************************************************************)
(* Installation metadata, as README.md gives it.                           *)
(***************************************************************************)
\* //export comments of example.go
ExportedSymbols == {"Hello", "JoinStrings"}

\* PG_FUNCTION_INFO_V1 declarations of example.c
ModuleMagicSymbols == {"HelloWorld", "JoinStrings"}

\* example--0.1.sql
SQLScript ==
    {[name |-> "hello", params |-> <<>>, returns |-> "void",
      symbol |-> "HelloWorld", strict |-> TRUE],
     [name |-> "join_strings", params |-> <<"text[]">>, returns |-> "text",
      symbol |-> "JoinStrings", strict |-> TRUE]}

SQLScriptSymbols == {e.symbol : e \in SQLScript}

ReturnTypeOf(sqlname) ==
    (CHOOSE e \in SQLScript : e.name = sqlname).returns

(***************************************************************************)
(* State.                                                                  *)
(***************************************************************************)
VARIABLES
    pc,         \* per backend: where its call is ("idle", a line, "returned")
    fn,         \* per backend: the exported function of its latest call
    fcinfo,     \* per backend: the call-info of its latest call
    strs,       \* per slot: JoinStrings' local strs
    err,        \* per backend: JoinStrings' local err
    ret,        \* per backend: the word the latest call returned
    scans,      \* per backend: scans the latest call made
    emitted,    \* per backend: log entries the latest call wrote
    hostError,  \* per backend: the host's error state was signalled
    stmt,       \* per backend: how the latest statement ended
    hostLog,    \* the host's log: entries with the backend that wrote them
    calls,      \* calls issued so far
    helloDone   \* Hello calls that returned

vars == <<pc, fn, fcinfo, strs, err, ret, scans, emitted, hostError, stmt,
          hostLog, calls, helloDone>>

Init ==
    /\ pc = [b \in Backends |-> "idle"]
    /\ fn = [b \in Backends |-> "none"]
    /\ fcinfo = [b \in Backends |-> NoCallInfo]
    /\ strs = [b \in Backends |-> NilSlice]
    /\ err = [b \in Backends |-> NilErr]
    /\ ret = [b \in Backends |-> NoDatum]
    /\ scans = [b \in Backends |-> 0]
    /\ emitted = [b \in Backends |-> <<>>]
    /\ hostError = [b \in Backends |-> FALSE]
    /\ stmt = [b \in Backends |-> "none"]
    /\ hostLog = <<>>
    /\ calls = 0
    /\ helloDone = 0

\* the host writes an entry of backend b to its log
Emit(b, entry) ==
    /\ hostLog' = Append(hostLog, [pid |-> b, entry |-> entry])
    /\ emitted' = [emitted EXCEPT ![b] = Append(@, entry)]
    /\ hostError' = [hostError EXCEPT ![b] = @ \/ RaisesHostError(entry)]

\* backend b is between statements and the host may issue another call
CanCall(b) == pc[b] = "idle" /\ calls < MaxCalls

\* the host starts a statement of backend b that calls function f
HostCall(b, f, fc, first) ==
    /\ calls' = calls + 1
    /\ pc' = [pc EXCEPT ![b] = first]
    /\ fn' = [fn EXCEPT ![b] = f]
    /\ fcinfo' = [fcinfo EXCEPT ![b] = fc]
    /\ err' = [err EXCEPT ![b] = NilErr]
    /\ ret' = [ret EXCEPT ![b] = NoDatum]
    /\ scans' = [scans EXCEPT ![b] = 0]
    /\ emitted' = [emitted EXCEPT ![b] = <<>>]
    /\ hostError' = [hostError EXCEPT ![b] = FALSE]
    /\ stmt' = [stmt EXCEPT ![b] = "running"]
    /\ UNCHANGED <<hostLog, helloDone>>

\* the host calls the exported symbol Hello
HostCallHello(b, F) ==
    /\ CanCall(b)
    /\ \E fc \in F :
        /\ HostCall(b, "Hello", fc, "L37")
        /\ UNCHANGED strs

\* lines 37-38: logger.Println("hello")
HelloPrintln(b) ==
    /\ pc[b] = "L37"
    /\ Emit(b, Println(HelloLogger, "hello"))
    /\ pc' = [pc EXCEPT ![b] = "L39"]
    /\ UNCHANGED <<fn, fcinfo, strs, err, ret, scans, stmt, calls, helloDone>>

\* line 39: return (datum)(0)
HelloReturn(b) ==
    /\ pc[b] = "L39"
    /\ ret' = [ret EXCEPT ![b] = HelloResult]
    /\ pc' = [pc EXCEPT ![b] = "returned"]
    /\ helloDone' = helloDone + 1
    /\ UNCHANGED <<fn, fcinfo, strs, err, scans, emitted, hostError, stmt,
                   hostLog, calls>>

\* the host calls the exported symbol JoinStrings; lines 48-49
HostCallJoinStrings(b, F) ==
    /\ CanCall(b)
    /\ \E fc \in F :
        /\ HostCall(b, "JoinStrings", fc, "L50")
        /\ strs' = [strs EXCEPT ![StrsSlot(b)] = NilSlice]

\* lines 50-51: err := fi.Scan(&strs); if err != nil
JoinStringsScan(b) ==
    /\ pc[b] = "L50"
    /\ LET r == Scan(fcinfo[b], JoinStringsDests(strs[StrsSlot(b)])) IN
        /\ strs' = [strs EXCEPT ![StrsSlot(b)] = r.dests[1]]
        /\ err' = [err EXCEPT ![b] = r.err]
        /\ pc' = [pc EXCEPT ![b] = IF ScanFailed(r.err) THEN "L52" ELSE "L56"]
    /\ scans' = [scans EXCEPT ![b] = @ + 1]
    /\ UNCHANGED <<fn, fcinfo, ret, emitted, hostError, stmt, hostLog, calls,
                   helloDone>>

\* line 52: pgxs.LogError(err.Error())
JoinStringsLogError(b) ==
    /\ pc[b] = "L52"
    /\ Emit(b, LogError(ErrorText(err[b])))
    /\ pc' = [pc EXCEPT ![b] = "L53"]
    /\ UNCHANGED <<fn, fcinfo, strs, err, ret, scans, stmt, calls, helloDone>>

\* line 53: return datum(pgxs.ToDatum("")); the locals go with the frame
JoinStringsReturnFallback(b) ==
    /\ pc[b] = "L53"
    /\ ret' = [ret EXCEPT ![b] = ToDatum(FallbackValue)]
    /\ strs' = [strs EXCEPT ![StrsSlot(b)] = NilSlice]
    /\ pc' = [pc EXCEPT ![b] = "returned"]
    /\ UNCHANGED <<fn, fcinfo, err, scans, emitted, hostError, stmt,
                   hostLog, calls, helloDone>>

\* lines 56-57: ret := strings.Join(strs, ""); return datum(pgxs.ToDatum(ret))
JoinStringsReturnJoined(b) ==
    /\ pc[b] = "L56"
    /\ ret' = [ret EXCEPT ![b] =
                  ToDatum(StringValue(Join(strs[StrsSlot(b)].elems, JoinSep)))]
    /\ strs' = [strs EXCEPT ![StrsSlot(b)] = NilSlice]
    /\ pc' = [pc EXCEPT ![b] = "returned"]
    /\ UNCHANGED <<fn, fcinfo, err, scans, emitted, hostError, stmt,
                   hostLog, calls, helloDone>>

\* the function has returned: the host ends the statement, aborting it when
\* its error reporting was signalled during the call, and releases the
\* call-info and the returned word, which live for one call only
HostStatementEnd(b) ==
    /\ pc[b] = "returned"
    /\ stmt' = [stmt EXCEPT ![b] = IF hostError[b] THEN "aborted"
                                   ELSE "completed"]
    /\ pc' = [pc EXCEPT ![b] = "idle"]
    /\ fcinfo' = [fcinfo EXCEPT ![b] = NoCallInfo]
    /\ ret' = [ret EXCEPT ![b] = NoDatum]
    /\ UNCHANGED <<fn, strs, err, scans, emitted, hostError, hostLog, calls,
                   helloDone>>

\* one backend, calls one after another, every call-info
Next ==
    \/ HostCallHello(1, CallInfos)
    \/ HelloPrintln(1)
    \/ HelloReturn(1)
    \/ HostCallJoinStrings(1, CallInfos)
    \/ JoinStringsScan(1)
    \/ JoinStringsLogError(1)
    \/ JoinStringsReturnFallback(1)
    \/ JoinStringsReturnJoined(1)
    \/ HostStatementEnd(1)

Spec == Init /\ [][Next]_vars

\* every backend, the steps of their calls interleaved
ConcNext ==
    \E b \in Backends :
        \/ HostCallHello(b, ConcCallInfos)
        \/ HelloPrintln(b)
        \/ HelloReturn(b)
        \/ HostCallJoinStrings(b, ConcCallInfos)
        \/ JoinStringsScan(b)
        \/ JoinStringsLogError(b)
        \/ JoinStringsReturnFallback(b)
        \/ JoinStringsReturnJoined(b)
        \/ HostStatementEnd(b)

ConcSpec == Init /\ [][ConcNext]_vars

(***************************************************************************)
(* Properties.                                                             *)
(***************************************************************************)
\* the function of backend b has returned and the host still holds the call
Returned(b, f) == fn[b] = f /\ pc[b] = "returned"

\* the concatenation of the strings of arr, in order
RECURSIVE Concat(_)
Concat(arr) == IF arr = <<>> THEN <<>> ELSE Head(arr) \o Concat(Tail(arr))

ErrorEntries(es) == {i \in 1..Len(es) : es[i].sev = "ERROR"}

\* the notice entries the host's log holds
HostNotices ==
    Cardinality({i \in 1..Len(hostLog) : hostLog[i].entry.sev = "NOTICE"})

\* C1: a JoinStrings call whose scan succeeded returns the encoding of the
\* concatenation of the scanned strings in argument order with no separator;
\* ["a","b","c"] gives "abc" and the empty array gives "".
C1_JoinStringsConcatenates ==
    \A b \in Backends :
        (Returned(b, "JoinStrings") /\ err[b] = NilErr) =>
            LET arr == fcinfo[b].args[1].val IN
            /\ ret[b] = TextDatum(Concat(arr))
            /\ arr = << <<"a">>, <<"b">>, <<"c">> >> =>
                   ret[b].val = <<"a", "b", "c">>
            /\ arr = <<>> => ret[b].val = <<>>

C1_Witness ==
    \E b \in Backends :
        /\ Returned(b, "JoinStrings")
        /\ err[b] = NilErr
        /\ fcinfo[b].args[1].val = << <<"a">>, <<"b">>, <<"c">> >>
        /\ ret[b] = TextDatum(<<"a", "b", "c">>)

\* C2: a JoinStrings call whose scan returned an error writes one
\* error-severity log entry carrying the error's text, and then returns the
\* encoding of the empty string.
C2_ScanErrorLoggedThenEmptyString ==
    \A b \in Backends :
        (fn[b] = "JoinStrings" /\ err[b] # NilErr) =>
            /\ pc[b] \in {"L53", "returned"} =>
                   /\ Len(emitted[b]) = 1
                   /\ emitted[b][1].sev = "ERROR"
                   /\ emitted[b][1].msg = err[b].text
                   /\ \E i \in 1..Len(hostLog) :
                          hostLog[i] = [pid |-> b, entry |-> emitted[b][1]]
            /\ pc[b] = "L53" => ret[b] = NoDatum
            /\ pc[b] = "returned" => ret[b] = TextDatum(<<>>)

C2_Witness ==
    \E b \in Backends :
        /\ Returned(b, "JoinStrings")
        /\ fcinfo[b].args = <<MalformedArrayDatum>>
        /\ err[b].kind = "InvalidInput"
        /\ emitted[b][1].msg = err[b].text
        /\ ret[b] = TextDatum(<<>>)

\* C3: Hello returns the encoded "no value" result whatever the call-info
\* holds, scans no argument and has no error path.
C3_HelloReturnsVoidWithoutScan ==
    \A b \in Backends :
        fn[b] = "Hello" =>
            /\ scans[b] = 0
            /\ err[b] = NilErr
            /\ strs[b] = NilSlice
            /\ ~hostError[b]
            /\ pc[b] = "returned" => ret[b] = ToDatum(NilValue)
            /\ pc[b] = "idle" => stmt[b] = "completed"

C3_Witness ==
    \E b \in Backends :
        /\ Returned(b, "Hello")
        /\ Len(fcinfo[b].args) = 2
        /\ fcinfo[b].args[1] = MalformedArrayDatum
        /\ ret[b] = ZeroDatum

\* C4: every Hello call writes exactly one log entry, at notice severity,
\* and none at error severity; after k Hello calls the host's log holds
\* exactly k notice entries.
C4_HelloOneNoticePerCall ==
    /\ \A b \in Backends :
          fn[b] = "Hello" =>
              /\ ErrorEntries(emitted[b]) = {}
              /\ pc[b] = "L37" => emitted[b] = <<>>
              /\ pc[b] # "L37" =>
                     /\ Len(emitted[b]) = 1
                     /\ emitted[b][1].sev = "NOTICE"
                     /\ emitted[b][1].msg = "hello"
    /\ HostNotices
          = helloDone + Cardinality({b \in Backends :
                                        fn[b] = "Hello" /\ pc[b] = "L39"})

C4_Witness ==
    /\ helloDone = 2
    /\ \A b \in Backends : pc[b] = "idle"
    /\ HostNotices = 2

\* C5: the symbols the SQL script and the module-magic file name are exactly
\* the symbols the library exports, so that every function the host calls
\* in the library is one both of them name.
C5_SymbolSetsEqual ==
    /\ \A b \in Backends :
          fn[b] # "none" => fn[b] \in SQLScriptSymbols \cap ModuleMagicSymbols
    /\ SQLScriptSymbols = ExportedSymbols
    /\ ModuleMagicSymbols = ExportedSymbols

\* the destination sets a scan may be handed
DestTypes == {"[]string", "string"}

Dest(t) == [gotype |-> t, set |-> FALSE, elems |-> <<>>]

DestLists == UNION {[1..k -> {Dest(t) : t \in DestTypes}] : k \in 0..MaxArgs}

SQLNameOf(f) == IF f = "Hello" THEN "hello" ELSE "join_strings"

\* d is a valid encoding of a value of SQL type t
ValidFor(d, t) == IF t = "void" THEN d = ZeroDatum ELSE d.typ = t /\ d.ok

\* a step of the function backend b is executing
FunctionStep(b) ==
    \/ HelloPrintln(b)
    \/ HelloReturn(b)
    \/ JoinStringsScan(b)
    \/ JoinStringsLogError(b)
    \/ JoinStringsReturnFallback(b)
    \/ JoinStringsReturnJoined(b)

\* C7: every path through Hello and JoinStrings ends by returning a valid
\* encoding of the declared SQL return type (void, text): a call in progress
\* always has a next step, and what it returns is such a value.
C7_AlwaysReturnsDeclaredType ==
    \A b \in Backends :
        /\ pc[b] = "returned" =>
               ValidFor(ret[b], ReturnTypeOf(SQLNameOf(fn[b])))
        /\ pc[b] \notin {"idle", "returned"} => ENABLED FunctionStep(b)

C7_Witness ==
    \E b \in Backends :
        /\ Returned(b, "JoinStrings")
        /\ err[b] # NilErr
        /\ ret[b].typ = "text"
        /\ ret[b].ok

\* C8: a statement whose function wrote an error-severity log entry is
\* aborted by the host when the function returns, so a failed scan in
\* JoinStrings never completes with the fallback value; a statement whose
\* function wrote no such entry is not aborted.
C8_ErrorLogAbortsStatement ==
    \A b \in Backends :
        (pc[b] = "idle" /\ stmt[b] # "none") =>
            /\ stmt[b] = "aborted" <=> ErrorEntries(emitted[b]) # {}
            /\ stmt[b] = "completed" <=> ErrorEntries(emitted[b]) = {}
            /\ (fn[b] = "JoinStrings" /\ err[b] # NilErr) =>
                   stmt[b] = "aborted"

C8_Witness ==
    \E b \in Backends :
        /\ pc[b] = "idle"
        /\ fn[b] = "JoinStrings"
        /\ err[b] # NilErr
        /\ stmt[b] = "aborted"

\* what a call of f on call-info fc returns when it runs alone
SoloResult(f, fc) ==
    IF f = "Hello" THEN ZeroDatum
    ELSE LET r == Scan(fc, <<NilSlice>>) IN
         IF r.err # NilErr THEN TextDatum(<<>>)
         ELSE TextDatum(Concat(r.dests[1].elems))

\* the log entries a call of f on call-info fc writes when it runs alone
SoloLog(f, fc) ==
    IF f = "Hello"
    THEN <<[sev |-> "NOTICE", prefix |-> "",
            flags |-> {"Ldate", "Ltime", "Lshortfile"}, msg |-> "hello"]>>
    ELSE LET r == Scan(fc, <<NilSlice>>) IN
         IF r.err # NilErr
         THEN <<[sev |-> "ERROR", prefix |-> "", flags |-> {},
                 msg |-> r.err.text]>>
         ELSE <<>>

C10_JoinStringsLogsIffScanFailed ==
    \A b \in Backends :
        fn[b] = "JoinStrings" =>
            /\ pc[b] = "L50" => scans[b] = 0 /\ emitted[b] = <<>>
            /\ pc[b] # "L50" => scans[b] = 1
            /\ pc[b] = "L52" =>
                   err[b] # NilErr /\ emitted[b] = <<>> /\ ret[b] = NoDatum
            /\ pc[b] = "L53" =>
                   /\ err[b] # NilErr
                   /\ Len(emitted[b]) = 1
                   /\ ret[b] = NoDatum
            /\ pc[b] = "L56" => err[b] = NilErr /\ emitted[b] = <<>>
            /\ pc[b] \in {"returned", "idle"} =>
                   Len(emitted[b]) = IF err[b] # NilErr THEN 1 ELSE 0
            /\ ErrorEntries(emitted[b]) = 1..Len(emitted[b])

C10_Witness ==
    \E b \in Backends :
        /\ fn[b] = "JoinStrings"
        /\ pc[b] = "L53"
        /\ scans[b] = 1
        /\ Len(emitted[b]) = 1
        /\ ret[b] = NoDatum

====
